---- MODULE Spec2Model ----
(***************************************************************************)
(* Job-application backend: the two server programs of the repository,    *)
(* src/unnamed/part_000 (server "part_000") and src/Backend/server.js     *)
(* (server "server_js"), over the table of either schema the repository   *)
(* ships: the one initializeDatabase creates, and the one of the init SQL *)
(* script, which part_000 keeps when it finds it (CREATE TABLE IF NOT     *)
(* EXISTS) and which the compose file gives server.js.                    *)
(* In Spec one request is handled at a time: a handler action is one     *)
(* whole request, from the upload middleware to the response, and         *)
(* ResponseSent then returns the server to idle.  In ConcurrentSpec the   *)
(* requests of two connections overlap, each giving way to the other at   *)
(* the awaits of its handler.                                             *)
(***************************************************************************)
EXTENDS Integers, Sequences, FiniteSets, TLC

VARIABLES
    server,            \* which program serves the requests
    schema,            \* which script created the table
    job_applications,  \* the table: id -> row
    seq,               \* job_applications_id_seq, the last SERIAL value drawn
    uploadDir,         \* the names of the files in the upload directory
    served,            \* how many requests were handled
    req,               \* the request being answered
    fault,             \* the query / unlink calls that failed in it
    res,               \* its response
    clients            \* the requests in flight, when requests overlap

vars ==
    <<server, schema, job_applications, seq, uploadDir, served, req, fault, res,
      clients>>

----------------------------------------------------------------------------
(* Bounds of the exploration *)

MaxSeq == 2        \* no INSERT is executed once the sequence reached MaxSeq
MaxFaults == 1     \* at most MaxFaults calls fail in one request
MaxRequests == 3   \* the requests handled in one run

\* the program and the script that created its table
Deployments ==
    {<<"part_000", "initializeDatabase">>,
     <<"part_000", "init_sql">>,
     <<"server_js", "init_sql">>}

NULL == <<>>       \* SQL NULL, JS null / undefined, of a value that is no string
NaN == 0 - 1       \* parseInt of a non-numeric id

\* mutant: the list of accepted values has one value more
Statuses_WithCancelled == {"Pending", "Approved", "Rejected", "Cancelled"}

\* ['Pending', 'Approved', 'Rejected']
Statuses == {"Pending", "Approved", "Rejected"}

Emails == {"a@x.com", "john.doe@example.com"}
Mobiles == {"1111111111", "9876543210"}

\* the :id path parameter, as sent; "abc" is not a number
IdParams == {"1", "2", "abc"}

parseInt(s) ==
    CASE s = "1" -> 1
      [] s = "2" -> 2
      [] OTHER -> NaN

isNaN(n) == n = NaN

----------------------------------------------------------------------------
(* The table *)

\* UNIQUE columns of the table of each schema
UniqueColumns(sch) ==
    IF sch = "initializeDatabase"
    THEN {"reference_id", "email", "mobile_number"}
    ELSE {"reference_id"}

\* the row the init SQL script inserts
SampleRow ==
    [reference_id |-> <<"R", "E", "F", "1", "2", "3", "4", "5", "6", "7", "8", "9">>,
     email |-> "john.doe@example.com",
     mobile_number |-> "9876543210",
     status |-> "Approved",
     ssc_doc_path |-> NULL,
     intermediate_doc_path |-> NULL,
     graduation_doc_path |-> NULL,
     additional_files_path |-> NULL,
     offer_letter_path |-> NULL]

EmptyTable == [i \in {} |-> SampleRow]

InitialTable(sch) ==
    IF sch = "init_sql" THEN [i \in {1} |-> SampleRow] ELSE EmptyTable

\* a response of res.status(code).json(...): message is the message / error text
\* (in parts, where the code concatenates), data what else the body carries
Reply(code, message, data) == [code |-> code, message |-> message, data |-> data]

\* the handler threw inside its catch: the request is never answered
Unanswered == Reply(0, <<"unhandled rejection">>, NULL)

\* no request is being handled
NoRequest == [op |-> "none"]
NoReply == Reply(0, <<>>, NULL)
Idle == req = NoRequest

\* the server takes one more request
Accept ==
    /\ Idle
    /\ served < MaxRequests
    /\ served' = served + 1
    /\ UNCHANGED clients

\* the connections whose requests may overlap
Clients == {1, 2}

\* a connection with no request in flight
NoClient == [pc |-> "idle", op |-> "none", res |-> NoReply]

\* a call of the request fails when the environment makes it fail
Fails(F, call) == call \in F

FaultSets(calls) == {F \in SUBSET calls : Cardinality(F) <= MaxFaults}

----------------------------------------------------------------------------
(* PUT /api/applications/:id *)

\* mutant: the UPDATE without its WHERE clause
SetStatus_EveryRow(table, id, status) ==
    [i \in DOMAIN table |-> [table[i] EXCEPT !.status = status]]

\* UPDATE job_applications SET status = $1 WHERE id = $2
SetStatus(table, id, status) ==
    [i \in DOMAIN table |->
        IF i = id THEN [table[i] EXCEPT !.status = status] ELSE table[i]]

\* mutant: the handler without its check of result.rows.length
UpdateStatusHandler_part000_NoRowCheck(table, idParam, status, F) ==
    LET id == parseInt(idParam) IN
    IF isNaN(id)
    THEN [table |-> table, res |-> Reply(400, <<"Invalid application ID">>, NULL)]
    ELSE IF status \notin Statuses
    THEN [table |-> table, res |-> Reply(400, <<"Invalid status">>, NULL)]
    ELSE IF Fails(F, "update")
    THEN [table |-> table, res |-> Reply(500, <<"Failed to update status">>, NULL)]
    ELSE [table |-> SetStatus(table, id, status),
          res |-> Reply(200, <<>>, [id |-> id, status |-> status])]

\* the handler of part_000: [table, res]
UpdateStatusHandler_part000(table, idParam, status, F) ==
    LET id == parseInt(idParam) IN
    IF isNaN(id)
    THEN [table |-> table, res |-> Reply(400, <<"Invalid application ID">>, NULL)]
    ELSE IF status \notin Statuses
    THEN [table |-> table, res |-> Reply(400, <<"Invalid status">>, NULL)]
    ELSE IF Fails(F, "update")
    THEN [table |-> table, res |-> Reply(500, <<"Failed to update status">>, NULL)]
    ELSE IF id \notin DOMAIN table
    THEN [table |-> table, res |-> Reply(404, <<"Application not found">>, NULL)]
    ELSE [table |-> SetStatus(table, id, status),
          res |-> Reply(200, <<>>, [id |-> id, status |-> status])]

\* the handler of server.js: the id goes to the query as sent, and a
\* non-numeric id makes the query throw
UpdateStatusHandler_serverjs(table, idParam, status, F) ==
    LET id == parseInt(idParam) IN
    IF status \notin Statuses
    THEN [table |-> table, res |-> Reply(400, <<"Invalid status value">>, NULL)]
    ELSE IF Fails(F, "update") \/ isNaN(id)
    THEN [table |-> table, res |-> Reply(500, <<"Failed to update status">>, NULL)]
    ELSE IF id \notin DOMAIN table
    THEN [table |-> table, res |-> Reply(404, <<"Application not found">>, NULL)]
    ELSE [table |-> SetStatus(table, id, status),
          res |-> Reply(200, <<"Status updated successfully">>,
                        SetStatus(table, id, status)[id])]

\* the status values a client sends: the three, another string, none ("")
StatusInputs == Statuses \cup {"Cancelled", ""}

UpdateStatus_part000 ==
    /\ Accept
    /\ server = "part_000"
    /\ \E idParam \in IdParams, status \in StatusInputs,
          F \in FaultSets({"update"}) :
        LET out == UpdateStatusHandler_part000(job_applications, idParam, status, F) IN
        /\ job_applications' = out.table
        /\ req' = [op |-> "PUT /api/applications/:id", id |-> idParam, status |-> status]
        /\ res' = out.res
        /\ fault' = F
        /\ UNCHANGED <<server, schema, seq, uploadDir>>

UpdateStatus_serverjs ==
    /\ Accept
    /\ server = "server_js"
    /\ \E idParam \in IdParams, status \in StatusInputs,
          F \in FaultSets({"update"}) :
        LET out == UpdateStatusHandler_serverjs(job_applications, idParam, status, F) IN
        /\ job_applications' = out.table
        /\ req' = [op |-> "PUT /api/applications/:id", id |-> idParam, status |-> status]
        /\ res' = out.res
        /\ fault' = F
        /\ UNCHANGED <<server, schema, seq, uploadDir>>

----------------------------------------------------------------------------
(* The upload middleware (multer, disk storage) *)

\* filename: fieldname + '-' + uniqueSuffix + extension, where uniqueSuffix is
\* Date.now() + '-' + Math.round(Math.random() * 1e9): two uploads of one field
\* get the same name when both parts agree
filename(fieldname, uniqueSuffix) == <<fieldname, uniqueSuffix>>

\* the values uniqueSuffix takes
UniqueSuffixes == {1, 2}

\* every file of the request is written to the upload directory before the
\* handler runs; a file of the same name is overwritten
multerStore(dir, fieldnames, uniqueSuffix) ==
    dir \cup {filename(f, uniqueSuffix) : f \in fieldnames}

\* files.<field>?.[0]?.filename || null
uploadedName(fieldnames, f, uniqueSuffix) ==
    IF f \in fieldnames THEN filename(f, uniqueSuffix) ELSE NULL

\* the file fields each server's upload accepts on a submission
uploadFields_part000 ==
    {"sscDoc", "intermediateDoc", "graduationDoc", "additional_files", "offerLetter"}

uploadFields_serverjs ==
    {"sscDoc", "intermediateDoc", "graduationDoc", "additionalFiles"}

RequiredDocs == {"sscDoc", "intermediateDoc", "graduationDoc"}

\* the sets of files a client sends with a submission
UploadChoices(accepted) ==
    {S \in SUBSET accepted :
        \/ S = {"sscDoc"}
        \/ RequiredDocs \subseteq S /\ Cardinality(S) <= 4}

----------------------------------------------------------------------------
(* POST /api/applications *)

requiredFields_part000 ==
    <<"full_name", "email", "mobile_number", "department", "job_role",
      "dob", "father_name", "permanent_address", "expected_salary",
      "employment_type", "branch_location", "ssc_year", "ssc_percentage",
      "intermediate_year", "intermediate_percentage", "college_name",
      "register_number", "graduation_year", "graduation_percentage",
      "experience_status">>

requiredFields_serverjs ==
    <<"full_name", "email", "mobile_number", "department", "job_role">>

Range(s) == {s[i] : i \in DOMAIN s}

FormFields == Range(requiredFields_part000)

\* a form body: '' is an empty or absent field
Body(e, m, blank) ==
    [f \in FormFields |->
        IF f \in blank THEN ""
        ELSE IF f = "email" THEN e
        ELSE IF f = "mobile_number" THEN m
        ELSE "x"]

\* the form bodies a client sends: complete ones, one without dob (which
\* only part_000 requires), one without full_name and email
Bodies ==
    {Body(e, m, {}) : e \in Emails, m \in Mobiles}
        \cup {Body("a@x.com", "1111111111", blank) :
                 blank \in {{"dob"}, {"full_name", "email"}}}

\* requiredFields.filter(field => !req.body[field])
missingFields(required, formData) ==
    SelectSeq(required, LAMBDA f : formData[f] = "")

\* generateReferenceId: 15 characters drawn from chars
chars ==
    <<"A", "B", "C", "D", "E", "F", "G", "H", "I", "J", "K", "L", "M",
      "N", "O", "P", "Q", "R", "S", "T", "U", "V", "W", "X", "Y", "Z",
      "0", "1", "2", "3", "4", "5", "6", "7", "8", "9">>

ReferenceIdLength == 15

generateReferenceId(draw) ==
    [i \in 1..ReferenceIdLength |-> chars[draw[i] + 1]]

\* the values of Math.floor(Math.random() * chars.length), 15 per id
RandomDraws ==
    {[i \in 1..ReferenceIdLength |-> k] : k \in {0, Len(chars) - 1}}

DigitChar == <<"0", "1", "2", "3", "4", "5", "6", "7", "8", "9">>

RECURSIVE Digits(_)
Digits(n) ==
    IF n < 10 THEN <<DigitChar[n + 1]>>
    ELSE Digits(n \div 10) \o <<DigitChar[(n % 10) + 1]>>

\* `${Date.now()}`: thirteen digits; the requests explored fall in one
\* millisecond, where the random parts alone keep generated names apart
DateNowDigits ==
    <<"1", "7", "6", "2", "2", "4", "0", "0", "0", "0", "0", "0", "0">>

\* `REF${Date.now()}${Math.floor(Math.random() * 1000)}`
referenceId_serverjs(k) == <<"R", "E", "F">> \o DateNowDigits \o Digits(k)

\* the values of Math.floor(Math.random() * 1000)
RefRandoms == {7, 42}

\* the unique constraint an INSERT of row violates, "" when none; the
\* indexes are checked in the order the table declares them
violatedConstraint(table, row, sch) ==
    LET hit(c) == c \in UniqueColumns(sch)
                  /\ \E i \in DOMAIN table : table[i][c] = row[c]
    IN  IF hit("reference_id") THEN "job_applications_reference_id_key"
        ELSE IF hit("email") THEN "job_applications_email_key"
        ELSE IF hit("mobile_number") THEN "job_applications_mobile_number_key"
        ELSE ""

\* INSERT INTO job_applications ... RETURNING id, reference_id: a value of
\* the sequence is drawn before the constraints are checked
\* [table, seq, err]: err is "", "connection" or the violated constraint
Insert(table, sq, row, sch, F) ==
    IF Fails(F, "insert")
    THEN [table |-> table, seq |-> sq, err |-> "connection"]
    ELSE IF violatedConstraint(table, row, sch) # ""
    THEN [table |-> table, seq |-> sq + 1,
          err |-> violatedConstraint(table, row, sch)]
    ELSE [table |-> [i \in DOMAIN table \cup {sq + 1} |->
                        IF i = sq + 1 THEN row ELSE table[i]],
          seq |-> sq + 1, err |-> ""]

\* the handler of part_000, after the upload: [table, seq, res]
SubmitHandler_part000(table, sq, sch, formData, fieldnames, uniqueSuffix, draw, F) ==
    LET missing == missingFields(requiredFields_part000, formData)
        referenceId == generateReferenceId(draw)
        row == [reference_id |-> referenceId,
                email |-> formData["email"],
                mobile_number |-> formData["mobile_number"],
                status |-> "Pending",
                ssc_doc_path |-> uploadedName(fieldnames, "sscDoc", uniqueSuffix),
                intermediate_doc_path |-> uploadedName(fieldnames, "intermediateDoc", uniqueSuffix),
                graduation_doc_path |-> uploadedName(fieldnames, "graduationDoc", uniqueSuffix),
                additional_files_path |-> uploadedName(fieldnames, "additional_files", uniqueSuffix),
                offer_letter_path |-> NULL]
        ins == Insert(table, sq, row, sch, F)
    IN  IF missing # <<>>
        THEN [table |-> table, seq |-> sq,
              res |-> Reply(400, <<"Missing field: ", missing[1]>>, NULL)]
        ELSE IF ~ (RequiredDocs \subseteq fieldnames)
        THEN [table |-> table, seq |-> sq,
              res |-> Reply(400, <<"Missing required documents">>, NULL)]
        ELSE IF ins.err # ""
        THEN [table |-> ins.table, seq |-> ins.seq,
              res |-> Reply(500,
                  IF ins.err = "job_applications_email_key"
                  THEN <<"Email already exists">>
                  ELSE IF ins.err = "job_applications_mobile_number_key"
                  THEN <<"Mobile number already exists">>
                  ELSE <<"Failed to submit application">>, NULL)]
        ELSE [table |-> ins.table, seq |-> ins.seq,
              res |-> Reply(201, <<>>, [referenceId |-> referenceId])]

\* the handler of server.js, after the upload: [table, seq, res]
SubmitHandler_serverjs(table, sq, sch, formData, fieldnames, uniqueSuffix, k, F) ==
    LET missing == missingFields(requiredFields_serverjs, formData)
        reference_id == referenceId_serverjs(k)
        row == [reference_id |-> reference_id,
                email |-> formData["email"],
                mobile_number |-> formData["mobile_number"],
                status |-> "Pending",
                ssc_doc_path |-> uploadedName(fieldnames, "sscDoc", uniqueSuffix),
                intermediate_doc_path |-> uploadedName(fieldnames, "intermediateDoc", uniqueSuffix),
                graduation_doc_path |-> uploadedName(fieldnames, "graduationDoc", uniqueSuffix),
                additional_files_path |-> uploadedName(fieldnames, "additionalFiles", uniqueSuffix),
                offer_letter_path |-> NULL]
        ins == Insert(table, sq, row, sch, F)
    IN  IF missing # <<>>
        THEN [table |-> table, seq |-> sq,
              res |-> Reply(400, <<"Missing required fields">>, [missing |-> missing])]
        ELSE IF ins.err # ""
        THEN [table |-> ins.table, seq |-> ins.seq,
              res |-> Reply(500, <<"Internal server error">>, NULL)]
        ELSE [table |-> ins.table, seq |-> ins.seq,
              res |-> Reply(201, <<"Application submitted successfully">>,
                            [reference_id |-> reference_id])]

SubmitApplication_part000 ==
    /\ Accept
    /\ server = "part_000"
    /\ seq < MaxSeq
    /\ \E formData \in Bodies, fieldnames \in UploadChoices(uploadFields_part000),
          uniqueSuffix \in UniqueSuffixes, draw \in RandomDraws,
          F \in FaultSets({"insert"}) :
        LET out == SubmitHandler_part000(job_applications, seq, schema, formData,
                                         fieldnames, uniqueSuffix, draw, F)
        IN  /\ uploadDir' = multerStore(uploadDir, fieldnames, uniqueSuffix)
            /\ job_applications' = out.table
            /\ seq' = out.seq
            /\ req' = [op |-> "POST /api/applications", body |-> formData,
                       files |-> {filename(f, uniqueSuffix) : f \in fieldnames}]
            /\ res' = out.res
            /\ fault' = F
            /\ UNCHANGED <<server, schema>>

SubmitApplication_serverjs ==
    /\ Accept
    /\ server = "server_js"
    /\ seq < MaxSeq
    /\ \E formData \in Bodies, fieldnames \in UploadChoices(uploadFields_serverjs),
          uniqueSuffix \in UniqueSuffixes, k \in RefRandoms,
          F \in FaultSets({"insert"}) :
        LET out == SubmitHandler_serverjs(job_applications, seq, schema, formData,
                                          fieldnames, uniqueSuffix, k, F)
        IN  /\ uploadDir' = multerStore(uploadDir, fieldnames, uniqueSuffix)
            /\ job_applications' = out.table
            /\ seq' = out.seq
            /\ req' = [op |-> "POST /api/applications", body |-> formData,
                       files |-> {filename(f, uniqueSuffix) : f \in fieldnames}]
            /\ res' = out.res
            /\ fault' = F
            /\ UNCHANGED <<server, schema>>

----------------------------------------------------------------------------

(* POST /api/applications/:id/offer-letter *)

\* fs.unlinkSync(path): throws when the file is absent or the call fails
\* [threw, dir]
unlinkSync(dir, name, fails) ==
    IF fails \/ name \notin dir
    THEN [threw |-> TRUE, dir |-> dir]
    ELSE [threw |-> FALSE, dir |-> dir \ {name}]

\* fs.existsSync(path)
existsSync(dir, name) == name \in dir

\* mutant: the UPDATE sets a second column
SetOfferLetterPath_AndSscDoc(table, id, name) ==
    [i \in DOMAIN table |->
        IF i = id
        THEN [table[i] EXCEPT !.offer_letter_path = name, !.ssc_doc_path = name]
        ELSE table[i]]

\* UPDATE job_applications SET offer_letter_path = $1 WHERE id = $2
SetOfferLetterPath(table, id, name) ==
    [i \in DOMAIN table |->
        IF i = id THEN [table[i] EXCEPT !.offer_letter_path = name] ELSE table[i]]

\* the catch block of both handlers: if (req.file) fs.unlinkSync(<the upload>),
\* then the 500; an unlinkSync that throws here leaves the request unanswered
\* [table, dir, res]
OfferLetterCatch(table, dir, file, F) ==
    LET u == unlinkSync(dir, file, Fails(F, "unlink_catch")) IN
    IF file = NULL
    THEN [table |-> table, dir |-> dir,
          res |-> Reply(500, <<"Failed to upload offer letter">>, NULL)]
    ELSE IF u.threw
    THEN [table |-> table, dir |-> dir, res |-> Unanswered]
    ELSE [table |-> table, dir |-> u.dir,
          res |-> Reply(500, <<"Failed to upload offer letter">>, NULL)]

\* the handler of part_000, after the upload; file is the uploaded file's
\* name, NULL when the request carries none; dir holds the upload
\* [table, dir, res]
OfferLetterHandler_part000(table, dir, idParam, file, F) ==
    LET id == parseInt(idParam)
        unew == unlinkSync(dir, file, Fails(F, "unlink"))
        old == table[id].offer_letter_path
        uold == unlinkSync(dir, old, Fails(F, "unlink_old"))
        \* the directory after the previous offer letter, if any, is deleted
        dir2 == IF old # NULL /\ existsSync(dir, old) THEN uold.dir ELSE dir
    IN  IF isNaN(id)
        THEN [table |-> table, dir |-> dir,
              res |-> Reply(400, <<"Invalid application ID">>, NULL)]
        ELSE IF file = NULL
        THEN [table |-> table, dir |-> dir,
              res |-> Reply(400, <<"No file uploaded">>, NULL)]
        ELSE IF Fails(F, "select")
        THEN OfferLetterCatch(table, dir, file, F)
        ELSE IF id \notin DOMAIN table
        THEN IF unew.threw
             THEN OfferLetterCatch(table, dir, file, F)
             ELSE [table |-> table, dir |-> unew.dir,
                   res |-> Reply(404, <<"Application not found">>, NULL)]
        ELSE IF table[id].status # "Approved"
        THEN IF unew.threw
             THEN OfferLetterCatch(table, dir, file, F)
             ELSE [table |-> table, dir |-> unew.dir,
                   res |-> Reply(400,
                       <<"Application must be approved to upload an offer letter">>,
                       NULL)]
        ELSE IF old # NULL /\ existsSync(dir, old) /\ uold.threw
        THEN OfferLetterCatch(table, dir, file, F)
        ELSE IF Fails(F, "update")
        THEN OfferLetterCatch(table, dir2, file, F)
        ELSE [table |-> SetOfferLetterPath(table, id, file), dir |-> dir2,
              res |-> Reply(200, <<>>, [id |-> id, offer_letter_path |-> file])]

\* the handler of server.js, after the upload
\* [table, dir, res]
OfferLetterHandler_serverjs(table, dir, idParam, file, F) ==
    LET id == parseInt(idParam)
        unew == unlinkSync(dir, file, Fails(F, "unlink"))
    IN  IF file = NULL
        THEN [table |-> table, dir |-> dir,
              res |-> Reply(400, <<"No file uploaded">>, NULL)]
        ELSE IF Fails(F, "update") \/ isNaN(id)
        THEN OfferLetterCatch(table, dir, file, F)
        ELSE IF id \notin DOMAIN table
        THEN IF unew.threw
             THEN OfferLetterCatch(table, dir, file, F)
             ELSE [table |-> table, dir |-> unew.dir,
                   res |-> Reply(404, <<"Application not found">>, NULL)]
        ELSE [table |-> SetOfferLetterPath(table, id, file), dir |-> dir,
              res |-> Reply(200, <<"Offer letter uploaded successfully">>,
                            [filePath |-> <<"/Uploads/", file>>])]

\* the request carries one offerLetter file, or none
OfferLetterUploads == {{"offerLetter"}, {}}

UploadOfferLetter_part000 ==
    /\ Accept
    /\ server = "part_000"
    /\ \E idParam \in IdParams, fieldnames \in OfferLetterUploads,
          uniqueSuffix \in UniqueSuffixes,
          F \in FaultSets({"select", "unlink", "unlink_old", "update", "unlink_catch"}) :
        LET file == uploadedName(fieldnames, "offerLetter", uniqueSuffix)
            out == OfferLetterHandler_part000(job_applications,
                       multerStore(uploadDir, fieldnames, uniqueSuffix),
                       idParam, file, F)
        IN  /\ job_applications' = out.table
            /\ uploadDir' = out.dir
            /\ req' = [op |-> "POST /api/applications/:id/offer-letter",
                       id |-> idParam, file |-> file]
            /\ res' = out.res
            /\ fault' = F
            /\ UNCHANGED <<server, schema, seq>>

UploadOfferLetter_serverjs ==
    /\ Accept
    /\ server = "server_js"
    /\ \E idParam \in IdParams, fieldnames \in OfferLetterUploads,
          uniqueSuffix \in UniqueSuffixes,
          F \in FaultSets({"unlink", "update", "unlink_catch"}) :
        LET file == uploadedName(fieldnames, "offerLetter", uniqueSuffix)
            out == OfferLetterHandler_serverjs(job_applications,
                       multerStore(uploadDir, fieldnames, uniqueSuffix),
                       idParam, file, F)
        IN  /\ job_applications' = out.table
            /\ uploadDir' = out.dir
            /\ req' = [op |-> "POST /api/applications/:id/offer-letter",
                       id |-> idParam, file |-> file]
            /\ res' = out.res
            /\ fault' = F
            /\ UNCHANGED <<server, schema, seq>>

----------------------------------------------------------------------------
(* GET /api/offer-letter and GET /api/documents/:filename (part_000) *)

\* mutant: the SELECT without its status condition
SelectOfferLetter_AnyStatus(table, reference_id, email) ==
    {i \in DOMAIN table :
        /\ table[i].reference_id = reference_id
        /\ table[i].email = email}

\* SELECT offer_letter_path FROM job_applications
\* WHERE reference_id = $1 AND email = $2 AND status = 'Approved'
SelectOfferLetter(table, reference_id, email) ==
    {i \in DOMAIN table :
        /\ table[i].reference_id = reference_id
        /\ table[i].email = email
        /\ table[i].status = "Approved"}

\* rows[0]: the table returns its rows in the order of their ids
FirstRow(rows) == CHOOSE i \in rows : \A j \in rows : i <= j

\* mutant: a missing file is answered as a missing pointer is
DownloadOfferLetterHandler_OneNotFound(table, dir, reference_id, email, F) ==
    LET rows == SelectOfferLetter(table, reference_id, email)
        path == table[FirstRow(rows)].offer_letter_path
    IN  IF reference_id = <<>> \/ email = ""
        THEN Reply(400, <<"Reference ID and email are required">>, NULL)
        ELSE IF Fails(F, "select")
        THEN Reply(500, <<"Failed to fetch offer letter">>, NULL)
        ELSE IF rows = {}
        THEN Reply(404, <<"Application not found or not approved">>, NULL)
        ELSE IF path = NULL \/ ~ existsSync(dir, path)
        THEN Reply(404, <<"Offer letter not found">>, NULL)
        ELSE Reply(200, <<>>, [offer_letter_path |-> path])

\* the handler: res
DownloadOfferLetterHandler(table, dir, reference_id, email, F) ==
    LET rows == SelectOfferLetter(table, reference_id, email)
        path == table[FirstRow(rows)].offer_letter_path
    IN  IF reference_id = <<>> \/ email = ""
        THEN Reply(400, <<"Reference ID and email are required">>, NULL)
        ELSE IF Fails(F, "select")
        THEN Reply(500, <<"Failed to fetch offer letter">>, NULL)
        ELSE IF rows = {}
        THEN Reply(404, <<"Application not found or not approved">>, NULL)
        ELSE IF path = NULL
        THEN Reply(404, <<"Offer letter not found">>, NULL)
        ELSE IF ~ existsSync(dir, path)
        THEN Reply(404, <<"Offer letter file not found on server">>, NULL)
        ELSE Reply(200, <<>>, [offer_letter_path |-> path])

\* the reference ids a client asks for: those a record can hold, and none
ReferenceIdInputs ==
    {generateReferenceId(draw) : draw \in RandomDraws}
        \cup {SampleRow.reference_id, <<>>}

DownloadOfferLetter ==
    /\ Accept
    /\ server = "part_000"
    /\ \E reference_id \in ReferenceIdInputs, email \in Emails \cup {""},
          F \in FaultSets({"select"}) :
        /\ req' = [op |-> "GET /api/offer-letter",
                   reference_id |-> reference_id, email |-> email]
        /\ res' = DownloadOfferLetterHandler(job_applications, uploadDir,
                                             reference_id, email, F)
        /\ fault' = F
        /\ UNCHANGED <<server, schema, job_applications, seq, uploadDir>>

\* mutant: offer letters are not served by file name
DocumentDownloadHandler_NoOfferLetters(dir, name) ==
    IF existsSync(dir, name) /\ name[1] # "offerLetter"
    THEN Reply(200, <<>>, [download |-> name])
    ELSE Reply(404, <<"File not found">>, NULL)

\* the handler: res
DocumentDownloadHandler(dir, name) ==
    IF existsSync(dir, name)
    THEN Reply(200, <<>>, [download |-> name])
    ELSE Reply(404, <<"File not found">>, NULL)

\* the file names a client asks for
DocumentNames ==
    {filename(f, n) : f \in {"offerLetter", "sscDoc"}, n \in UniqueSuffixes}

DocumentDownload ==
    /\ Accept
    /\ server = "part_000"
    /\ \E name \in DocumentNames :
        /\ req' = [op |-> "GET /api/documents/:filename", filename |-> name]
        /\ res' = DocumentDownloadHandler(uploadDir, name)
        /\ fault' = {}
        /\ UNCHANGED <<server, schema, job_applications, seq, uploadDir>>

----------------------------------------------------------------------------

\* the response is sent and the server waits for the next request
ResponseSent ==
    /\ ~ Idle
    /\ req' = NoRequest
    /\ fault' = {}
    /\ res' = NoReply
    /\ UNCHANGED <<server, schema, job_applications, seq, uploadDir, served, clients>>

Init ==
    /\ \E d \in Deployments : server = d[1] /\ schema = d[2]
    /\ job_applications = InitialTable(schema)
    /\ seq = IF schema = "init_sql" THEN 1 ELSE 0
    /\ uploadDir = {}
    /\ served = 0
    /\ req = NoRequest
    /\ fault = {}
    /\ res = NoReply
    /\ clients = [c \in Clients |-> NoClient]

Next ==
    \/ SubmitApplication_part000
    \/ SubmitApplication_serverjs
    \/ UpdateStatus_part000
    \/ UpdateStatus_serverjs
    \/ UploadOfferLetter_part000
    \/ UploadOfferLetter_serverjs
    \/ DownloadOfferLetter
    \/ DocumentDownload
    \/ ResponseSent

Spec == Init /\ [][Next]_vars

----------------------------------------------------------------------------
(* Overlapping requests.  The handlers are async functions: a request gives *)
(* way to the others at the end of the upload middleware and at each await *)
(* of a query, and runs alone between two such points.  No call fails.     *)

\* the connections whose request is received and not yet answered
InFlight(cl) == {c \in Clients : cl[c].pc \notin {"idle", "done"}}

\* result.rows of SELECT * FROM job_applications WHERE id = $1
SelectApplication(table, id) ==
    IF id \in DOMAIN table THEN {table[id]} ELSE {}

\* the handler of part_000 between the answer of its SELECT and its UPDATE:
\* rows is what the SELECT returned, dir the directory as it is now
\* [dir, res, update]: update tells that the UPDATE is sent, res answers
\* the request otherwise
OfferLetterChecks_part000(table, rows, dir, file) ==
    LET row == CHOOSE r \in rows : TRUE
        unew == unlinkSync(dir, file, FALSE)
        old == row.offer_letter_path
        uold == unlinkSync(dir, old, FALSE)
        caught == OfferLetterCatch(table, dir, file, {})
    IN  IF rows = {}
        THEN IF unew.threw
             THEN [dir |-> caught.dir, res |-> caught.res, update |-> FALSE]
             ELSE [dir |-> unew.dir, update |-> FALSE,
                   res |-> Reply(404, <<"Application not found">>, NULL)]
        ELSE IF row.status # "Approved"
        THEN IF unew.threw
             THEN [dir |-> caught.dir, res |-> caught.res, update |-> FALSE]
             ELSE [dir |-> unew.dir, update |-> FALSE,
                   res |-> Reply(400,
                       <<"Application must be approved to upload an offer letter">>,
                       NULL)]
        ELSE IF old # NULL /\ existsSync(dir, old)
        THEN IF uold.threw
             THEN [dir |-> caught.dir, res |-> caught.res, update |-> FALSE]
             ELSE [dir |-> uold.dir, res |-> NoReply, update |-> TRUE]
        ELSE [dir |-> dir, res |-> NoReply, update |-> TRUE]

\* the form bodies of the submissions that overlap: complete, of either email
OverlappingBodies == {Body(e, "1111111111", {}) : e \in Emails}

\* a connection sends a submission: the upload middleware stores its files
BeginSubmit ==
    \E c \in Clients :
        /\ clients[c].pc = "idle"
        /\ served < MaxRequests
        /\ served' = served + 1
        /\ \E formData \in OverlappingBodies, fieldnames \in {RequiredDocs},
              uniqueSuffix \in UniqueSuffixes,
              rand \in (IF server = "part_000" THEN RandomDraws ELSE RefRandoms) :
            /\ uploadDir' = multerStore(uploadDir, fieldnames, uniqueSuffix)
            /\ clients' = [clients EXCEPT ![c] =
                   [pc |-> "insert", op |-> "POST /api/applications",
                    body |-> formData, fieldnames |-> fieldnames,
                    uniqueSuffix |-> uniqueSuffix, rand |-> rand,
                    files |-> {filename(f, uniqueSuffix) : f \in fieldnames},
                    overlaps |-> InFlight(clients) # {},
                    res |-> NoReply]]
        /\ UNCHANGED <<server, schema, job_applications, seq, req, fault, res>>

\* the handler of the submission runs: validation, INSERT, response
FinishSubmit ==
    \E c \in Clients :
        /\ clients[c].pc = "insert"
        /\ LET r == clients[c]
               out == IF server = "part_000"
                      THEN SubmitHandler_part000(job_applications, seq, schema,
                               r.body, r.fieldnames, r.uniqueSuffix, r.rand, {})
                      ELSE SubmitHandler_serverjs(job_applications, seq, schema,
                               r.body, r.fieldnames, r.uniqueSuffix, r.rand, {})
           IN  /\ job_applications' = out.table
               /\ seq' = out.seq
               /\ clients' = [clients EXCEPT ![c].pc = "done", ![c].res = out.res]
        /\ UNCHANGED <<server, schema, uploadDir, served, req, fault, res>>

\* a connection sends an offer letter: the upload middleware stores the file
BeginOfferLetter ==
    \E c \in Clients :
        /\ clients[c].pc = "idle"
        /\ served < MaxRequests
        /\ served' = served + 1
        /\ \E idParam \in IdParams, fieldnames \in OfferLetterUploads,
              uniqueSuffix \in UniqueSuffixes :
            /\ uploadDir' = multerStore(uploadDir, fieldnames, uniqueSuffix)
            /\ clients' = [clients EXCEPT ![c] =
                   [pc |-> IF server = "part_000" THEN "select" ELSE "query",
                    op |-> "POST /api/applications/:id/offer-letter",
                    id |-> idParam,
                    file |-> uploadedName(fieldnames, "offerLetter", uniqueSuffix),
                    rows |-> {},
                    overlaps |-> InFlight(clients) # {},
                    res |-> NoReply]]
        /\ UNCHANGED <<server, schema, job_applications, seq, req, fault, res>>

\* part_000: the checks of the id and of the file, then the SELECT
OfferLetterSelect_part000 ==
    \E c \in Clients :
        /\ clients[c].pc = "select"
        /\ LET r == clients[c]
               id == parseInt(r.id)
           IN  clients' = [clients EXCEPT ![c] =
                   IF isNaN(id)
                   THEN [r EXCEPT !.pc = "done",
                            !.res = Reply(400, <<"Invalid application ID">>, NULL)]
                   ELSE IF r.file = NULL
                   THEN [r EXCEPT !.pc = "done",
                            !.res = Reply(400, <<"No file uploaded">>, NULL)]
                   ELSE [r EXCEPT !.pc = "checks",
                            !.rows = SelectApplication(job_applications, id)]]
        /\ UNCHANGED <<server, schema, job_applications, seq, uploadDir, served,
                       req, fault, res>>

\* part_000: the SELECT has answered; the checks of its row and the deletion
\* of the previous offer letter, up to the UPDATE
OfferLetterCheck_part000 ==
    \E c \in Clients :
        /\ clients[c].pc = "checks"
        /\ LET r == clients[c]
               out == OfferLetterChecks_part000(job_applications, r.rows,
                                                uploadDir, r.file)
           IN  /\ uploadDir' = out.dir
               /\ clients' = [clients EXCEPT ![c] =
                      IF out.update THEN [r EXCEPT !.pc = "update"]
                      ELSE [r EXCEPT !.pc = "done", !.res = out.res]]
        /\ UNCHANGED <<server, schema, job_applications, seq, served, req, fault, res>>

\* part_000: the UPDATE and the response
OfferLetterUpdate_part000 ==
    \E c \in Clients :
        /\ clients[c].pc = "update"
        /\ LET r == clients[c]
               id == parseInt(r.id)
           IN  /\ job_applications' = SetOfferLetterPath(job_applications, id, r.file)
               /\ clients' = [clients EXCEPT ![c].pc = "done", ![c].res =
                      Reply(200, <<>>, [id |-> id, offer_letter_path |-> r.file])]
        /\ UNCHANGED <<server, schema, seq, uploadDir, served, req, fault, res>>

\* server.js: the handler has one await, its UPDATE
OfferLetterQuery_serverjs ==
    \E c \in Clients :
        /\ clients[c].pc = "query"
        /\ LET r == clients[c]
               out == OfferLetterHandler_serverjs(job_applications, uploadDir,
                                                  r.id, r.file, {})
           IN  /\ job_applications' = out.table
               /\ uploadDir' = out.dir
               /\ clients' = [clients EXCEPT ![c].pc = "done", ![c].res = out.res]
        /\ UNCHANGED <<server, schema, seq, served, req, fault, res>>

\* the response of a connection is sent; the connection may send again
ClientResponseSent ==
    \E c \in Clients :
        /\ clients[c].pc = "done"
        /\ clients' = [clients EXCEPT ![c] = NoClient]
        /\ UNCHANGED <<server, schema, job_applications, seq, uploadDir, served,
                       req, fault, res>>

ConcurrentNext ==
    \/ BeginSubmit
    \/ FinishSubmit
    \/ BeginOfferLetter
    \/ OfferLetterSelect_part000
    \/ OfferLetterCheck_part000
    \/ OfferLetterUpdate_part000
    \/ OfferLetterQuery_serverjs
    \/ ClientResponseSent

ConcurrentSpec == Init /\ [][ConcurrentNext]_vars

----------------------------------------------------------------------------
(* Properties *)

SubmitOp == "POST /api/applications"
UpdateStatusOp == "PUT /api/applications/:id"
OfferLetterOp == "POST /api/applications/:id/offer-letter"
DownloadOfferLetterOp == "GET /api/offer-letter"

\* the document pointers of a row
PointerColumns ==
    {"ssc_doc_path", "intermediate_doc_path", "graduation_doc_path",
     "additional_files_path", "offer_letter_path"}

\* C1: an offer-letter issuance succeeds if and only if the application is
\* Approved (a request without a file, or one in which a query or an unlink
\* fails, aside); on a Pending or Rejected application it fails, leaves
\* offer_letter_path as it was and, the upload's name being new to the
\* directory, the upload directory as it was.
C1_IssuanceIffApproved ==
    [][req'.op = OfferLetterOp /\ parseInt(req'.id) \in DOMAIN job_applications =>
        LET id == parseInt(req'.id)
            row == job_applications[id]
        IN  /\ res'.code = 200 => row.status = "Approved"
            /\ row.status = "Approved" /\ req'.file # NULL /\ fault' = {}
                   => res'.code = 200
            /\ row.status # "Approved" =>
                   /\ res'.code # 200
                   /\ job_applications'[id].offer_letter_path = row.offer_letter_path
                   /\ req'.file \notin uploadDir => uploadDir' = uploadDir]_vars

\* C2: every record with an offer letter is Approved.
C2_OfferLetterOnlyWhenApproved ==
    \A i \in DOMAIN job_applications :
        job_applications[i].offer_letter_path # NULL
            => job_applications[i].status = "Approved"

\* C3 (as claimed): an Approved or Rejected application keeps its status, and
\* no application's status goes back to Pending.
C3_StatusMonotonic ==
    [][\A i \in DOMAIN job_applications :
        /\ job_applications[i].status \in {"Approved", "Rejected"}
               => job_applications'[i].status = job_applications[i].status
        /\ job_applications'[i].status = "Pending"
               => job_applications[i].status = "Pending"]_vars

\* C3 (amended): an accepted status update sets the status of its
\* application to the value it asks for, whatever the status was, and the
\* status of an application changes in no other way.
C3_StatusFollowsRequest ==
    [][/\ \A i \in DOMAIN job_applications :
            job_applications'[i].status # job_applications[i].status =>
                /\ req'.op = UpdateStatusOp
                /\ res'.code = 200
                /\ parseInt(req'.id) = i
                /\ job_applications'[i].status = req'.status
       /\ req'.op = UpdateStatusOp /\ res'.code = 200 =>
            /\ parseInt(req'.id) \in DOMAIN job_applications
            /\ job_applications'[parseInt(req'.id)].status = req'.status]_vars

\* the sample application, Approved when the server starts, is Pending again
\* after an accepted update
C3_BackToPendingReached ==
    /\ schema = "init_sql"
    /\ req.op = UpdateStatusOp
    /\ req.id = "1"
    /\ req.status = "Pending"
    /\ res.code = 200
    /\ job_applications[1].status = "Pending"

\* C4: a status update that asks for a value other than Pending, Approved,
\* Rejected is answered 400 and changes no record; the status of every record
\* is one of the three.
C4_InvalidStatusRejected ==
    /\ [][req'.op = UpdateStatusOp
              /\ req'.status \notin {"Pending", "Approved", "Rejected"}
            => res'.code = 400 /\ job_applications' = job_applications]_vars
    /\ [](\A i \in DOMAIN job_applications :
            job_applications[i].status \in {"Pending", "Approved", "Rejected"})

\* "Cancelled" was asked for an existing application and refused
C4_CancelledRefused ==
    /\ req.op = UpdateStatusOp
    /\ req.status = "Cancelled"
    /\ parseInt(req.id) \in DOMAIN job_applications
    /\ res.code = 400

\* the values of the document pointers of the table
Referenced(table) ==
    {table[i][c] : i \in DOMAIN table, c \in PointerColumns} \ {NULL}

\* the body has every form field and the request every required document
Complete(r) ==
    /\ \A f \in FormFields : r.body[f] # ""
    /\ RequiredDocs \subseteq {n[1] : n \in r.files}

\* C5: where the table declares email and mobile_number unique, a complete
\* submission with the email or the mobile number of an existing application
\* fails, creates no record, and leaves the upload directory as it was
\* before the request.
C5_ConflictLeavesNoFiles ==
    [][/\ req'.op = SubmitOp
       /\ Complete(req')
       /\ {"email", "mobile_number"} \subseteq UniqueColumns(schema)
       /\ \E i \in DOMAIN job_applications :
            \/ job_applications[i].email = req'.body["email"]
            \/ job_applications[i].mobile_number = req'.body["mobile_number"]
       => /\ res'.code \notin {200, 201}
          /\ job_applications' = job_applications
          /\ uploadDir' = uploadDir]_vars

\* C6: a submission that fails validation leaves no new file in the upload
\* directory and no new record in the table.
C6_ValidationBeforeMutation ==
    [][req'.op = SubmitOp /\ res'.code = 400
        => uploadDir' = uploadDir /\ job_applications' = job_applications]_vars

\* C7: when no request is being handled, every file of the upload directory
\* is named by a document pointer of some record.
C7_NoOrphanedFile ==
    Idle => uploadDir \subseteq Referenced(job_applications)

\* the names the upload middleware gives the files of a request
Uploaded(r) ==
    IF r.op = SubmitOp THEN r.files
    ELSE IF r.op = OfferLetterOp THEN {r.file} \ {NULL}
    ELSE {}

\* C8: every document pointer that is not null names a file of the upload
\* directory: no pointer names a missing file when the server starts, and no
\* request whose uploads have names new to the directory, a failed
\* re-issuance included, makes one do so.
C8_PointersNameExistingFiles ==
    /\ Referenced(job_applications) \subseteq uploadDir
    /\ [][/\ Uploaded(req') \cap uploadDir = {}
           /\ Referenced(job_applications) \subseteq uploadDir
           => Referenced(job_applications') \subseteq uploadDir']_vars

\* C9: a successful issuance for an Approved application whose recorded offer
\* letter is in the upload directory, with a file of another name, removes
\* the old file, keeps the new one and records it; a retrieval with the
\* application's reference id and email then returns the new file's name.
C9_ReissueReplacesFile ==
    [][/\ req'.op = OfferLetterOp
       /\ res'.code = 200
       /\ parseInt(req'.id) \in DOMAIN job_applications
       /\ job_applications[parseInt(req'.id)].status = "Approved"
       /\ job_applications[parseInt(req'.id)].offer_letter_path \in uploadDir \ {req'.file}
       => LET id == parseInt(req'.id)
              old == job_applications[id].offer_letter_path
              row == job_applications'[id]
          IN  /\ old \notin uploadDir'
              /\ req'.file \in uploadDir'
              /\ row.offer_letter_path = req'.file
              /\ DownloadOfferLetterHandler(job_applications', uploadDir',
                     row.reference_id, row.email, {})
                   = Reply(200, <<>>, [offer_letter_path |-> req'.file])]_vars

\* the record and the file a retrieval may return: the record has the
\* reference id and the email asked for, is Approved, and its offer letter is
\* in the upload directory
Retrievable(table, dir, reference_id, email) ==
    {i \in DOMAIN table :
        /\ table[i].reference_id = reference_id
        /\ table[i].email = email
        /\ table[i].status = "Approved"
        /\ table[i].offer_letter_path # NULL
        /\ table[i].offer_letter_path \in dir}

\* C10: a retrieval returns a pointer only for a record with the reference id
\* and the email asked for that is Approved and whose offer letter is recorded
\* and present, and it returns that record's pointer; a retrieval that gives
\* both values and finds no such record is answered 404 (500 when its query
\* fails).
C10_RetrievalOnlyForApprovedPair ==
    [][req'.op = DownloadOfferLetterOp =>
        LET found == Retrievable(job_applications, uploadDir,
                                 req'.reference_id, req'.email)
        IN  /\ res'.code = 200 =>
                \E i \in found :
                    res'.data.offer_letter_path = job_applications[i].offer_letter_path
            /\ found = {} /\ req'.reference_id # <<>> /\ req'.email # ""
                   => res'.code = IF fault' = {} THEN 404 ELSE 500
            /\ UNCHANGED <<job_applications, uploadDir>>]_vars

\* a retrieval returned the offer letter of an application
C10_RetrievalSucceeded ==
    /\ req.op = DownloadOfferLetterOp
    /\ res.code = 200
    /\ res.data.offer_letter_path \in uploadDir

\* C11: no two records share a reference_id, none an email, none a
\* mobile_number, whichever script created the table.
C11_UniqueUnderEverySchema ==
    \A i, j \in DOMAIN job_applications :
        i # j =>
            /\ job_applications[i].reference_id # job_applications[j].reference_id
            /\ job_applications[i].email # job_applications[j].email
            /\ job_applications[i].mobile_number # job_applications[j].mobile_number

\* the two connections have each been answered a request of op, the second
\* received while the first was in flight, and no other request was served
BothAnswered(op) ==
    /\ served = 2
    /\ \A c \in Clients : clients[c].pc = "done" /\ clients[c].op = op
    /\ \E c \in Clients : clients[c].overlaps

\* C12: two overlapping complete submissions with one email that no record
\* had, with files of different names and different reference ids drawn:
\* one is answered 201 and creates
\* the one record with that email, the other fails, and the upload directory
\* then holds the files of the first and no other.
C12_OneWinsLoserCleansUp ==
    /\ BothAnswered(SubmitOp)
    /\ clients[1].body["email"] = clients[2].body["email"]
    /\ clients[1].files \cap clients[2].files = {}
    /\ clients[1].rand # clients[2].rand
    /\ \A i \in DOMAIN InitialTable(schema) :
           InitialTable(schema)[i].email # clients[1].body["email"]
    => \E w \in Clients : \E l \in Clients \ {w} :
           /\ clients[w].res.code = 201
           /\ clients[l].res.code \notin {200, 201}
           /\ Cardinality({i \in DOMAIN job_applications :
                  job_applications[i].email = clients[w].body["email"]}) = 1
           /\ uploadDir = clients[w].files

\* C13: two overlapping issuances of part_000 for one Approved application,
\* with files of different names: when both are answered, the record's
\* offer_letter_path names a file of the upload directory, and a file of
\* either request that is still in the directory is the one the record names.
C13_IssuanceSerialized ==
    /\ server = "part_000"
    /\ BothAnswered(OfferLetterOp)
    /\ clients[1].id = clients[2].id
    /\ parseInt(clients[1].id) \in DOMAIN job_applications
    /\ job_applications[parseInt(clients[1].id)].status = "Approved"
    /\ clients[1].file # NULL
    /\ clients[2].file # NULL
    /\ clients[1].file # clients[2].file
    => LET path == job_applications[parseInt(clients[1].id)].offer_letter_path IN
       /\ path \in uploadDir
       /\ \A c \in Clients : clients[c].file \in uploadDir => clients[c].file = path

\* C14: a complete submission in which no call fails, and whose email and
\* mobile number violate no constraint of the table, is answered 201 and
\* creates a record: a generated reference id that a record already has is
\* replaced by another one, and does not make the submission fail.
C14_ReferenceIdCollisionRetried ==
    [][/\ req'.op = SubmitOp
       /\ Complete(req')
       /\ fault' = {}
       /\ \A i \in DOMAIN job_applications :
            /\ "email" \in UniqueColumns(schema)
                   => job_applications[i].email # req'.body["email"]
            /\ "mobile_number" \in UniqueColumns(schema)
                   => job_applications[i].mobile_number # req'.body["mobile_number"]
       => /\ res'.code = 201
          /\ Cardinality(DOMAIN job_applications')
                 = Cardinality(DOMAIN job_applications) + 1]_vars

\* the names a validation response lists: those in its message and those in
\* the missing list of its body
Listed(r) ==
    Range(r.message)
        \cup (IF r.message = <<"Missing required fields">>
              THEN Range(r.data.missing) ELSE {})

\* C15: a submission without some required fields is answered 400 with a
\* body that lists every one of them; one with every required field and
\* without some required documents is answered 400 with a body that lists
\* every missing document.
C15_EveryMissingFieldListed ==
    [][req'.op = SubmitOp =>
        LET required == IF server = "part_000" THEN requiredFields_part000
                        ELSE requiredFields_serverjs
            missing == {f \in Range(required) : req'.body[f] = ""}
            missingDocuments == RequiredDocs \ {n[1] : n \in req'.files}
        IN  /\ missing # {} => res'.code = 400 /\ missing \subseteq Listed(res')
            /\ missing = {} /\ missingDocuments # {}
                   => res'.code = 400 /\ missingDocuments \subseteq Listed(res')]_vars

\* the records that submissions created
Submitted(table) == DOMAIN table \ DOMAIN InitialTable(schema)

\* C16: the reference ids of the records that submissions created, whether
\* the submissions overlapped or not, all have one length, consist of
\* characters of the alphanumeric alphabet, and each differs from the
\* reference_id of every other record.
C16_ReferenceIdFormat ==
    \A i \in Submitted(job_applications) :
        /\ Range(job_applications[i].reference_id) \subseteq Range(chars)
        /\ \A j \in DOMAIN job_applications \ {i} :
               job_applications[j].reference_id # job_applications[i].reference_id
        /\ \A j \in Submitted(job_applications) :
               Len(job_applications[j].reference_id)
                   = Len(job_applications[i].reference_id)

\* C17: an issuance request that carries a file of a name new to the upload
\* directory and is not answered 200 (its id is no number, names no
\* application, names one that is not Approved, or its query fails; no
\* unlink fails) leaves the file out of the directory; a request for an id
\* that names no application is answered 404.
C17_FailedIssuanceDeletesUpload ==
    [][/\ req'.op = OfferLetterOp
       /\ req'.file # NULL
       /\ req'.file \notin uploadDir
       /\ fault' \subseteq {"select", "update"}
       => /\ res'.code # 200 => req'.file \notin uploadDir'
          /\ fault' = {} /\ ~ isNaN(parseInt(req'.id))
               /\ parseInt(req'.id) \notin DOMAIN job_applications
                 => res'.code = 404]_vars

\* C18: a re-issuance for an Approved application whose recorded offer letter
\* is in the upload directory, in which the deletion of that file fails and
\* no other call does, is answered 200, keeps the new file in the directory
\* and records it.
C18_OldFileDeletionBestEffort ==
    [][/\ req'.op = OfferLetterOp
       /\ server = "part_000"
       /\ fault' = {"unlink_old"}
       /\ req'.file # NULL
       /\ req'.file \notin uploadDir
       /\ parseInt(req'.id) \in DOMAIN job_applications
       /\ job_applications[parseInt(req'.id)].status = "Approved"
       /\ job_applications[parseInt(req'.id)].offer_letter_path \in uploadDir
       => /\ res'.code = 200
          /\ req'.file \in uploadDir'
          /\ job_applications'[parseInt(req'.id)].offer_letter_path = req'.file]_vars

\* C19: every submission and every issuance request is answered by its
\* handler, with a success or with the error the handler met, also when a
\* deletion in a failure path fails: no such request is left without a
\* response.
C19_EveryRequestAnswered ==
    req.op \in {SubmitOp, OfferLetterOp} =>
        res.code \in {200, 201, 400, 404, 409, 500}

\* the four document pointers a submission sets
DocumentColumns ==
    {"ssc_doc_path", "intermediate_doc_path", "graduation_doc_path",
     "additional_files_path"}

\* C20: a submission answered 201 adds one record to the table and changes
\* no other; the record is Pending, has no offer letter, its four document
\* pointers name the files the request stored in the upload directory, all
\* of them and no other, and the response returns its reference_id.
C20_SubmissionCreatesRecord ==
    [][req'.op = SubmitOp /\ res'.code = 201 =>
        \E n \in DOMAIN job_applications' \ DOMAIN job_applications :
            LET row == job_applications'[n] IN
            /\ DOMAIN job_applications' = DOMAIN job_applications \cup {n}
            /\ \A i \in DOMAIN job_applications :
                   job_applications'[i] = job_applications[i]
            /\ row.status = "Pending"
            /\ row.offer_letter_path = NULL
            /\ {row[c] : c \in DocumentColumns} \ {NULL} = req'.files
            /\ req'.files \subseteq uploadDir'
            /\ row.reference_id = IF server = "part_000"
                                  THEN res'.data.referenceId
                                  ELSE res'.data.reference_id]_vars

ImmutableColumns == DOMAIN SampleRow \ {"status", "offer_letter_path"}

C23_ThreeNotFoundVariants ==
    [][req'.op = DownloadOfferLetterOp =>
        LET matching == {i \in DOMAIN job_applications :
                            /\ job_applications[i].reference_id = req'.reference_id
                            /\ job_applications[i].email = req'.email
                            /\ job_applications[i].status = "Approved"}
            given == req'.reference_id # <<>> /\ req'.email # "" /\ fault' = {}
        IN  /\ UNCHANGED <<job_applications, uploadDir>>
            /\ (given /\ matching = {})
                 => (/\ res'.code = 404
                     /\ res'.message = <<"Application not found or not approved">>)
            /\ (given /\ matching # {}
                   /\ \A i \in matching : job_applications[i].offer_letter_path = NULL)
                 => (/\ res'.code = 404
                     /\ res'.message = <<"Offer letter not found">>)
            /\ (given /\ matching # {}
                   /\ \A i \in matching :
                          /\ job_applications[i].offer_letter_path # NULL
                          /\ job_applications[i].offer_letter_path \notin uploadDir)
                 => (/\ res'.code = 404
                     /\ res'.message = <<"Offer letter file not found on server">>)]_vars

\* a retrieval found the Approved record and its pointer, and not the file
C23_FileNotFoundOnServer ==
    /\ req.op = DownloadOfferLetterOp
    /\ res.code = 404
    /\ res.message = <<"Offer letter file not found on server">>
    /\ \E i \in DOMAIN job_applications :
           /\ job_applications[i].reference_id = req.reference_id
           /\ job_applications[i].status = "Approved"
           /\ job_applications[i].offer_letter_path \notin uploadDir \cup {NULL}

DocumentDownloadOp == "GET /api/documents/:filename"

\* C24: a download by file name is answered with the file when a file of
\* that name is in the upload directory and 404 when none is, whatever the
\* records say, and changes nothing; a retrieval by reference id and email
\* is not answered 200 when no Approved record has both.  So the offer
\* letter of an application that is no longer Approved stays downloadable by
\* its file name while the retrieval no longer returns it.
C24_DownloadByNameIgnoresStatus ==
    [][/\ req'.op = DocumentDownloadOp =>
            /\ UNCHANGED <<job_applications, uploadDir>>
            /\ IF req'.filename \in uploadDir
               THEN res'.code = 200 /\ res'.data.download = req'.filename
               ELSE res'.code = 404
       /\ (/\ req'.op = DownloadOfferLetterOp
           /\ \A i \in DOMAIN job_applications :
                  (/\ job_applications[i].reference_id = req'.reference_id
                   /\ job_applications[i].email = req'.email)
                      => job_applications[i].status # "Approved")
            => res'.code # 200]_vars

\* the offer letter of an application that was Approved and is now Rejected
\* was downloaded by its file name
C24_RejectedOfferLetterDownloaded ==
    /\ req.op = DocumentDownloadOp
    /\ res.code = 200
    /\ \E i \in DOMAIN job_applications :
           /\ job_applications[i].status = "Rejected"
           /\ job_applications[i].offer_letter_path = req.filename

====
